---- MODULE Spec2Model ----
(***************************************************************************)
(* A model of complete.py: the Completer class (a text buffer completed by *)
(* a remote BLOOM inference endpoint), its Supplier parameters, and the    *)
(* two paragraph formatters _normalize_paragraphs / _prettify_paragraphs.  *)
(*                                                                         *)
(* A Python str is a sequence of one-character strings.  Every other       *)
(* Python object is a record [kind, s, items, fields] (see PyVal below).   *)
(***************************************************************************)
EXTENDS Integers, Sequences, FiniteSets, TLC

VARIABLES
    api,      \* functools.cache of _get_inference_api: 0 = empty, else the handle
    created,  \* number of InferenceApi objects constructed so far
    objs,     \* the constructed Completer objects, in construction order
    running,  \* per thread: the call it is in, and how far that call has come
    last,     \* what the most recent call did (its outcome, as the caller sees it)
    hist,     \* per Completer: where its buffer comes from (history, not program state)
    arg,      \* formatter checks: the text a formatter is applied to
    ret       \* formatter checks: the successive results

vars == <<api, created, objs, running, last, hist, arg, ret>>

(***************************************************************************)
(* Bounds of the model.                                                    *)
(***************************************************************************)
MaxCompleters == 1 \* Completer objects, all operations being tried on each
MaxSessions == 2   \* Completer objects sharing the cached InferenceApi
MaxLen == 5        \* length of the texts _normalize_paragraphs is run on
MaxWords == 2      \* words per raw text handed to the prettifier check

(***************************************************************************)
(* Text: characters and the str methods the formatters use.                *)
(***************************************************************************)
NL == "\n"
SP == " "
Whitespace == {SP, NL}
Char == {"a", SP, NL}

\* textwrap.wrap(graf) is called with the default width.
Width == 70

IsWs(c) == c \in Whitespace

\* Number of leading whitespace characters of s.
LeadingWs(s) ==
    CHOOSE k \in 0..Len(s) :
        /\ \A j \in 1..k : IsWs(s[j])
        /\ k < Len(s) => ~IsWs(s[k + 1])

\* Number of leading newlines of s.
LeadingNL(s) ==
    CHOOSE k \in 0..Len(s) :
        /\ \A j \in 1..k : s[j] = NL
        /\ k < Len(s) => s[k + 1] # NL

\* Number of trailing whitespace characters of s.
TrailingWs(s) ==
    CHOOSE k \in 0..Len(s) :
        /\ \A j \in (Len(s) - k + 1)..Len(s) : IsWs(s[j])
        /\ k < Len(s) => ~IsWs(s[Len(s) - k])

LStrip(s) == SubSeq(s, LeadingWs(s) + 1, Len(s))

RStrip(s) == SubSeq(s, 1, Len(s) - TrailingWs(s))

\* str.strip()
Strip(s) == RStrip(LStrip(s))

\* A slip: str.replace(' ', '\n'), the two arguments swapped.
ReplaceSP(s) == [i \in 1..Len(s) |-> IF s[i] = SP THEN NL ELSE s[i]]

\* str.replace('\n', ' ')
ReplaceNL(s) == [i \in 1..Len(s) |-> IF s[i] = NL THEN SP ELSE s[i]]

\* sep.join(parts)
RECURSIVE Join(_, _)
Join(parts, sep) ==
    IF parts = <<>> THEN <<>>
    ELSE IF Len(parts) = 1 THEN parts[1]
    ELSE parts[1] \o sep \o Join(Tail(parts), sep)

\* str.split('\n'): always at least one piece.
RECURSIVE SplitNL(_)
SplitNL(s) ==
    IF \A i \in 1..Len(s) : s[i] # NL THEN <<s>>
    ELSE LET k == CHOOSE i \in 1..Len(s) :
                      s[i] = NL /\ \A j \in 1..(i - 1) : s[j] # NL
         IN  <<SubSeq(s, 1, k - 1)>> \o SplitNL(SubSeq(s, k + 1, Len(s)))

\* Length of the run of newlines that starts at position i of s.
NLRun(s, i) == LeadingNL(SubSeq(s, i, Len(s)))

\* _PARA_BREAK.split(text) with _PARA_BREAK = re.compile(r'\n{2,}'): the
\* leftmost match is the whole (greedy) run of two or more newlines.
RECURSIVE _PARA_BREAK_split(_)
_PARA_BREAK_split(s) ==
    IF \A i \in 1..Len(s) : NLRun(s, i) < 2 THEN <<s>>
    ELSE LET k == CHOOSE i \in 1..Len(s) :
                      NLRun(s, i) >= 2 /\ \A j \in 1..(i - 1) : NLRun(s, j) < 2
         IN  <<SubSeq(s, 1, k - 1)>>
                 \o _PARA_BREAK_split(SubSeq(s, k + NLRun(s, k), Len(s)))

\* _normalize_paragraphs(text)
_normalize_paragraphs(text) ==
    LET pretty == _PARA_BREAK_split(text)
        raw == [i \in 1..Len(pretty) |-> ReplaceNL(Strip(pretty[i]))]
    IN  Join(raw, <<NL>>)

(***************************************************************************)
(* textwrap.wrap(graf) with TextWrapper's defaults: width 70, whitespace   *)
(* replaced by spaces and dropped at line ends, words broken after their   *)
(* hyphens, long words broken.  Of the characters of this model's texts,   *)
(* "-" is the hyphen, " " and "\n" are whitespace, and every other one is  *)
(* a letter (the texts hold no digits and no punctuation).                 *)
(***************************************************************************)

\* Position j of text holds a letter: [^\d\W], and here \w and the class
\* [\w!"'&.,?] as well.  Off the ends of the text nothing matches.
IsLetter(text, j) == j \in 1..Len(text) /\ ~IsWs(text[j]) /\ text[j] # "-"

IsHyphen(text, j) == j \in 1..Len(text) /\ text[j] = "-"

\* Length of the run of hyphens that starts at position j of text.
RECURSIVE HyphenRun(_, _)
HyphenRun(text, j) == IF IsHyphen(text, j) THEN 1 + HyphenRun(text, j + 1) ELSE 0

\* wordsep_re, em-dash between words: (?<=[\w!"'&.,?]) -{2,} (?=\w) at j.
EmDash(text, j) ==
    /\ IsLetter(text, j - 1)
    /\ HyphenRun(text, j) >= 2
    /\ IsLetter(text, j + HyphenRun(text, j))

\* wordsep_re, hyphenated word: the hyphen at q ends a chunk when two
\* letters, or letter-hyphen-letter, stand before it and letter-letter, or
\* letter-hyphen-letter, after it.
HyphenBreak(text, q) ==
    /\ IsHyphen(text, q)
    /\ \/ IsLetter(text, q - 2) /\ IsLetter(text, q - 1)
       \/ IsLetter(text, q - 3) /\ IsHyphen(text, q - 2) /\ IsLetter(text, q - 1)
    /\ IsLetter(text, q + 1)
    /\ \/ IsLetter(text, q + 2)
       \/ IsHyphen(text, q + 2) /\ IsLetter(text, q + 3)

\* wordsep_re, word: [^ws]+? taken one character at a time (k so far, from
\* position p) until a hyphen that breaks, the end of the word or an
\* em-dash follows.  The length of the chunk.
RECURSIVE WordLen(_, _, _)
WordLen(text, p, k) ==
    IF HyphenBreak(text, p + k) THEN k + 1
    ELSE IF p + k > Len(text) \/ IsWs(text[p + k]) \/ EmDash(text, p + k) THEN k
    ELSE WordLen(text, p, k + 1)

\* The length of the chunk that wordsep_re matches at position p of text.
ChunkLen(text, p) ==
    IF IsWs(text[p]) THEN LeadingWs(SubSeq(text, p, Len(text)))
    ELSE IF EmDash(text, p) THEN HyphenRun(text, p)
    ELSE WordLen(text, p, 1)

\* wordsep_re.split(text) from position p on: the matches follow one
\* another, so the chunks are the matches.
RECURSIVE _split_from(_, _)
_split_from(text, p) ==
    IF p > Len(text) THEN <<>>
    ELSE <<SubSeq(text, p, p + ChunkLen(text, p) - 1)>>
             \o _split_from(text, p + ChunkLen(text, p))

\* chunk.strip() == ''
IsBlank(chunk) == \A i \in 1..Len(chunk) : chunk[i] \in Whitespace

\* TextWrapper._munge_whitespace: every whitespace character becomes a space.
_munge_whitespace(text) ==
    [i \in 1..Len(text) |-> IF text[i] \in Whitespace THEN SP ELSE text[i]]

\* TextWrapper._split (break_on_hyphens is on): wordsep_re.split(text),
\* empty chunks removed.
_split(text) == _split_from(text, 1)

\* sum(map(len, cur_line))
RECURSIVE SumLen(_)
SumLen(chunks) == IF chunks = <<>> THEN 0 ELSE Len(Head(chunks)) + SumLen(Tail(chunks))

\* ''.join(cur_line)
RECURSIVE Concat(_)
Concat(chunks) == IF chunks = <<>> THEN <<>> ELSE Head(chunks) \o Concat(Tail(chunks))

\* The inner loop of _wrap_chunks: move chunks onto the current line while
\* they fit in the width.
RECURSIVE Fill(_, _)
Fill(chunks, cur_line) ==
    IF chunks # <<>> /\ SumLen(cur_line) + Len(Head(chunks)) <= Width
    THEN Fill(Tail(chunks), Append(cur_line, Head(chunks)))
    ELSE [cur_line |-> cur_line, chunks |-> chunks]

\* chunk.rfind('-', 0, space_left), counted from 1: the position of the last
\* hyphen among the first space_left characters, 0 when there is none.
rfind_hyphen(chunk, space_left) ==
    LET found == {j \in 1..space_left : IsHyphen(chunk, j)}
    IN  IF found = {} THEN 0 ELSE CHOOSE j \in found : \A h \in found : h <= j

\* TextWrapper._handle_long_word (break_long_words and break_on_hyphens are
\* on): the part of the chunk that fits in the space left goes on the
\* current line, cut after its last hyphen if one has a non-hyphen before it.
_handle_long_word(chunks, cur_line) ==
    LET space_left == Width - SumLen(cur_line)
        chunk == Head(chunks)
        hyphen == rfind_hyphen(chunk, space_left)
        end == IF /\ Len(chunk) > space_left
                  /\ hyphen > 1
                  /\ \E j \in 1..(hyphen - 1) : chunk[j] # "-"
               THEN hyphen ELSE space_left
    IN  [cur_line |-> Append(cur_line, SubSeq(chunk, 1, end)),
         chunks |-> <<SubSeq(chunk, end + 1, Len(chunk))>> \o Tail(chunks)]

\* TextWrapper._wrap_chunks: one pass of the outer loop per output line.
RECURSIVE _wrap_chunks(_, _)
_wrap_chunks(chunks, lines) ==
    IF chunks = <<>> THEN lines
    ELSE LET start == IF IsBlank(Head(chunks)) /\ lines # <<>>
                      THEN Tail(chunks) ELSE chunks
             filled == Fill(start, <<>>)
             broken == IF filled.chunks # <<>> /\ Len(Head(filled.chunks)) > Width
                       THEN _handle_long_word(filled.chunks, filled.cur_line)
                       ELSE filled
             cur == broken.cur_line
             cur_line == IF cur # <<>> /\ IsBlank(cur[Len(cur)])
                         THEN SubSeq(cur, 1, Len(cur) - 1) ELSE cur
         IN  _wrap_chunks(broken.chunks,
                          IF cur_line # <<>> THEN Append(lines, Concat(cur_line))
                          ELSE lines)

\* textwrap.wrap(text)
wrap(text) == _wrap_chunks(_split(_munge_whitespace(text)), <<>>)

\* A slip: the paragraphs joined by one newline, not by a blank line.
_prettify_single_newline(text) ==
    LET raw == SplitNL(Strip(text))
        pretty == [i \in 1..Len(raw) |-> Join(wrap(raw[i]), <<NL>>)]
    IN  Join(pretty, <<NL>>)

\* _prettify_paragraphs(text)
_prettify_paragraphs(text) ==
    LET raw == SplitNL(Strip(text))
        pretty == [i \in 1..Len(raw) |-> Join(wrap(raw[i]), <<NL>>)]
    IN  Join(pretty, <<NL, NL>>)

(***************************************************************************)
(* Python objects.  kind is the object's type; s holds the characters of a *)
(* str (or the literal of a number, or the name of the function a Supplier *)
(* wraps); items holds the elements of a list; fields holds the items of a *)
(* dict, keyed by string.                                                  *)
(***************************************************************************)
NoFields == [k \in {} |-> <<>>]
Obj(kind, s, items, fields) == [kind |-> kind, s |-> s, items |-> items, fields |-> fields]
PyStr(chars) == Obj("str", chars, <<>>, NoFields)
PyNone == Obj("NoneType", <<>>, <<>>, NoFields)
PyInt(literal) == Obj("int", <<literal>>, <<>>, NoFields)
PyFloat(literal) == Obj("float", <<literal>>, <<>>, NoFields)
PyBool(literal) == Obj("bool", <<literal>>, <<>>, NoFields)
PyList(items) == Obj("list", <<>>, items, NoFields)
PyDict(fields) == Obj("dict", <<>>, <<>>, fields)

\* Supplier.__init__: self._func = func
Supplier(func) == Obj("Supplier", <<func>>, <<>>, NoFields)

\* What the wrapped functions can return.  random.randrange(2**64) returns
\* any int of 0 .. 2**64 - 1, a new one at each call: the least, the
\* greatest and one between them (the first after random.seed(0)) are
\* tried.  "pick" stands for a caller's own function, which returns one
\* value or another.
FuncResults(func) ==
    IF func = "randrange"
    THEN {PyInt("0"), PyInt("7758176404715800194"), PyInt("18446744073709551615")}
    ELSE {PyInt("10"), PyInt("50")}

\* Supplier.__call__: return self._func()
Supplier_call(supplier) == FuncResults(supplier.s[1])

\* Parameter names are spelled out: __init__ looks at their first character.
do_sample == <<"d", "o", "_", "s", "a", "m", "p", "l", "e">>
max_new_tokens == <<"m", "a", "x", "_", "n", "e", "w", "_", "t", "o", "k", "e", "n", "s">>
seed == <<"s", "e", "e", "d">>
temperature == <<"t", "e", "m", "p", "e", "r", "a", "t", "u", "r", "e">>
top_k == <<"t", "o", "p", "_", "k">>
_text == <<"_", "t", "e", "x", "t">>

\* name.startswith('_')
startswith_underscore(name) == name # <<>> /\ name[1] = "_"

\* Completer._set_defaults
_set_defaults ==
    (do_sample :> PyBool("True")) @@ (max_new_tokens :> PyInt("250"))
        @@ (seed :> Supplier("randrange")) @@ (temperature :> PyFloat("0.75"))

\* dict.update(other)
update(dict, other) ==
    [n \in DOMAIN dict \cup DOMAIN other |->
        IF n \in DOMAIN other THEN other[n] ELSE dict[n]]

\* A slip: _get_inference_api without @functools.cache.
cache_never_hit(cache) == FALSE

\* @functools.cache: a call finds the result of an earlier call that has
\* returned (cache is 0 while none has).
cache_hit(cache) == cache # 0

\* The body of _get_inference_api: a new InferenceApi object.  Handles are
\* numbered in the order they are built, count having been built before.
_get_inference_api(count) == count + 1

\* A slip: the text setter without its check for the empty string.
text_setter_type_only(value) ==
    IF value.kind # "str" THEN "TypeError" ELSE ""

\* The checks of the text setter: the exception it raises, "" for none.
text_setter(value) ==
    IF value.kind # "str" THEN "TypeError"
    ELSE IF value.s = <<>> THEN "ValueError"
    ELSE ""

\* A slip: _build_params handing the Supplier objects on, uncalled.
_build_params_unresolved(dict, draw) ==
    [params |-> dict, calls |-> [n \in DOMAIN dict |-> 0]]

\* Completer._build_params: every Supplier among the stored parameters is
\* called (draw holds what each call returns), every other value is used
\* as it is.  calls counts the calls made to each parameter's Supplier.
_build_params(dict, draw) ==
    [params |-> [n \in DOMAIN dict |->
                    IF dict[n].kind = "Supplier" THEN draw[n] ELSE dict[n]],
     calls |-> [n \in DOMAIN dict |->
                    IF dict[n].kind = "Supplier" THEN 1 ELSE 0]]

\* The results the Suppliers of a parameter dict can give in one build.
Draws(dict) ==
    LET sup == {n \in DOMAIN dict : dict[n].kind = "Supplier"}
        all == UNION {Supplier_call(dict[n]) : n \in sup}
    IN  {d \in [sup -> all] : \A n \in sup : d[n] \in Supplier_call(dict[n])}

\* A slip: the first case written [{'generated_text': completion}, *_].
match_any_length(response) ==
    IF /\ response.kind = "list"
       /\ Len(response.items) >= 1
       /\ response.items[1].kind = "dict"
       /\ "generated_text" \in DOMAIN response.items[1].fields
    THEN [case |-> "generated_text",
          value |-> <<response.items[1].fields["generated_text"]>>]
    ELSE IF /\ response.kind = "dict"
            /\ "error" \in DOMAIN response.fields
            /\ response.fields["error"].kind = "list"
    THEN [case |-> "error", value |-> response.fields["error"].items]
    ELSE [case |-> "other_response", value |-> <<response>>]

\* The match statement of Completer.complete, cases tried in order.  A
\* sequence pattern matches a list (never a str); a mapping pattern matches
\* a dict that has the key, whatever else it holds.
match_response(response) ==
    IF /\ response.kind = "list"
       /\ Len(response.items) = 1
       /\ response.items[1].kind = "dict"
       /\ "generated_text" \in DOMAIN response.items[1].fields
    THEN [case |-> "generated_text",
          value |-> <<response.items[1].fields["generated_text"]>>]
    ELSE IF /\ response.kind = "dict"
            /\ "error" \in DOMAIN response.fields
            /\ response.fields["error"].kind = "list"
    THEN [case |-> "error", value |-> response.fields["error"].items]
    ELSE [case |-> "other_response", value |-> <<response>>]

(***************************************************************************)
(* The inputs the calls are tried with.                                    *)
(***************************************************************************)
NoParams == [n \in {} |-> PyNone]

Prompts ==
    {PyStr(<<"a", NL, NL, "b">>), PyStr(<<>>), PyStr(<<SP, NL>>), PyNone}

ParameterSets ==
    {NoParams,
     (seed :> PyInt("7")) @@ (top_k :> Supplier("pick")),
     _text :> PyStr(<<"x">>)}

\* 'Hi ': a text that _normalize_paragraphs would change.
Hi == PyStr(<<"H", "i", SP>>)

Responses ==
    {PyList(<<PyDict([k \in {"generated_text"} |-> Hi])>>),
     PyList(<<PyDict([k \in {"generated_text"} |-> PyStr(<<>>)])>>),
     PyList(<<PyDict([k \in {"generated_text"} |-> PyNone])>>),
     PyList(<<PyDict([k \in {"generated_text", "error"} |->
                        IF k = "error" THEN PyList(<<>>) ELSE Hi])>>),
     PyDict([k \in {"error"} |-> PyList(<<PyStr(<<"r", "l">>)>>)]),
     PyDict([k \in {"error", "generated_text"} |->
                IF k = "error" THEN PyList(<<>>) ELSE Hi]),
     PyDict([k \in {"error"} |-> PyStr(<<"r", "l">>)]),
     PyDict([k \in {"unexpected"} |-> PyStr(<<"s">>)]),
     PyList(<<>>),
     PyList(<<PyDict([k \in {"generated_text"} |-> Hi]),
              PyDict([k \in {"generated_text"} |-> Hi])>>),
     PyList(<<Hi>>),
     PyNone}

\* The responses tried where several Completers share the InferenceApi.
SharedResponses ==
    {PyList(<<PyDict([k \in {"generated_text"} |-> Hi])>>),
     PyDict([k \in {"error"} |-> PyList(<<PyStr(<<"r", "l">>)>>)])}

\* The responses __call__ is tried with: one it can print, one it cannot,
\* one that makes complete() raise.
CallResponses ==
    SharedResponses \cup {PyList(<<PyDict([k \in {"generated_text"} |-> PyNone])>>)}

\* The responses complete() is tried with next to the other operations: a
\* generated_text that is a text, the empty text or no text, the errors the
\* service reports, a payload of another shape.
CompleteResponses ==
    CallResponses \cup {PyList(<<PyDict([k \in {"generated_text"} |-> PyStr(<<>>)])>>),
                        PyDict([k \in {"unexpected"} |-> PyStr(<<"s">>)])}

\* The prompts tried where several Completers share the InferenceApi.
SharedPrompts == {PyStr(<<"a", NL, NL, "b">>), PyStr(<<>>), PyNone}

\* The parameters tried where the text is what matters: none, and a name
\* that __init__ rejects.
SharedParameterSets == {NoParams, _text :> PyStr(<<"x">>)}

Assigned == {PyStr(<<"x">>), PyStr(<<>>), PyNone}

(***************************************************************************)
(* The threads of the process.  A thread makes one call at a time.  A call *)
(* that waits (for the token file, for the transport) is several steps,    *)
(* and what the other threads do falls between them.                       *)
(***************************************************************************)
Threads == {"main", "worker"}

(***************************************************************************)
(* The record of a call: its arguments (value, kwargs), the exception it   *)
(* raised ("" for none) with its args, the buffer as it read it (pre),     *)
(* what it sent to the transport and how often, the Supplier calls it      *)
(* made, the response it got, what it returned or printed.  pc is where a  *)
(* call in progress stands, and handle is the InferenceApi that a          *)
(* construction has built.  For _build_params, before holds what the call  *)
(* just before it returned, when that was a _build_params of the same      *)
(* object.                                                                 *)
(***************************************************************************)
NoRequest == [inputs |-> PyNone, params |-> NoParams]

NoCall ==
    [op |-> "import", pc |-> "done", i |-> 0, value |-> PyNone, kwargs |-> NoParams,
     raised |-> "", args |-> <<>>, pre |-> PyNone, sent |-> 0,
     request |-> NoRequest, calls |-> NoParams, response |-> PyNone, out |-> <<>>,
     before |-> NoParams, handle |-> 0]

\* A thread that is in no call.
NotCalling == [NoCall EXCEPT !.op = "", !.pc = "idle"]

Init ==
    /\ api = 0
    /\ created = 0
    /\ objs = <<>>
    /\ running = [t \in Threads |-> NotCalling]
    /\ last = NoCall
    /\ hist = <<>>
    /\ arg = <<>>
    /\ ret = <<>>

\* The constructions that are waiting for the token file.
Opening == {t \in Threads : running[t].op = "__init__" /\ running[t].pc = "open"}

\* The constructions in progress.
Constructing == {t \in Threads : running[t].op = "__init__"}

\* A slip: __init__ without its check of the parameter names.
init_raises_names_unchecked(prompt, parameters) ==
    IF prompt.kind # "str" THEN "TypeError"
    ELSE text_setter(PyStr(_normalize_paragraphs(prompt.s)))

\* The exception Completer.__init__ raises, "" for none: re.split rejects a
\* prompt that is no str, the text setter checks the normalized prompt, and
\* then the parameter names are checked.
init_raises(prompt, parameters) ==
    IF prompt.kind # "str" THEN "TypeError"
    ELSE IF text_setter(PyStr(_normalize_paragraphs(prompt.s))) # ""
    THEN text_setter(PyStr(_normalize_paragraphs(prompt.s)))
    ELSE IF \E name \in DOMAIN parameters : startswith_underscore(name)
    THEN "TypeError"
    ELSE ""

\* Completer.__init__ from the second line on, self._inference being handle.
init_body(t, prompt, parameters, handle) ==
    LET raised == init_raises(prompt, parameters)
        self == [_inference |-> handle,
                 _text |-> PyStr(_normalize_paragraphs(prompt.s)),
                 __dict__ |-> update(_set_defaults, parameters)]
    IN  /\ objs' = IF raised = "" THEN Append(objs, self) ELSE objs
        /\ hist' = IF raised = ""
                   THEN Append(hist, [accepted |-> self._text, from |-> "prompt",
                                      assigned |-> <<>>])
                   ELSE hist
        /\ last' = [NoCall EXCEPT !.op = "__init__",
                                  !.i = IF raised = "" THEN Len(objs) + 1 ELSE 0,
                                  !.value = prompt, !.kwargs = parameters,
                                  !.raised = raised]
        /\ running' = [running EXCEPT ![t] = NotCalling]

\* Completer.__init__(prompt, **parameters) is called on thread t.  With the
\* InferenceApi in the cache the call runs to its end; with the cache empty
\* it enters _get_inference_api and waits for the token file to open.
init(t, prompt, parameters) ==
    /\ running[t].pc = "idle"
    /\ IF cache_hit(api)
       THEN /\ init_body(t, prompt, parameters, api)
            /\ UNCHANGED <<api, created, arg, ret>>
       ELSE /\ running' = [running EXCEPT ![t] =
                              [NotCalling EXCEPT !.op = "__init__", !.pc = "open",
                                                 !.value = prompt,
                                                 !.kwargs = parameters]]
            /\ UNCHANGED <<api, created, objs, last, hist, arg, ret>>

\* The token file is read on thread t, and _get_inference_api builds an
\* InferenceApi; it has not returned yet, and the cache is as it was.
init_load(t) ==
    /\ t \in Opening
    /\ created' = created + 1
    /\ running' = [running EXCEPT ![t].pc = "built",
                                  ![t].handle = _get_inference_api(created)]
    /\ UNCHANGED <<api, objs, last, hist, arg, ret>>

\* _get_inference_api returns on thread t: the cache stores the
\* InferenceApi built there (in place of what another thread may have
\* stored meanwhile), and __init__ goes on with it.
init_cached(t) ==
    /\ running[t].op = "__init__"
    /\ running[t].pc = "built"
    /\ api' = running[t].handle
    /\ init_body(t, running[t].value, running[t].kwargs, running[t].handle)
    /\ UNCHANGED <<created, arg, ret>>

\* The token file cannot be opened on thread t (there is none, say): open()
\* raises, the error passes through _get_inference_api and __init__ before
\* any check of the arguments, nothing is built and nothing is cached.
init_no_token(t) ==
    /\ t \in Opening
    /\ last' = [NoCall EXCEPT !.op = "__init__", !.value = running[t].value,
                              !.kwargs = running[t].kwargs,
                              !.raised = "FileNotFoundError"]
    /\ running' = [running EXCEPT ![t] = NotCalling]
    /\ UNCHANGED <<api, created, objs, hist, arg, ret>>

\* The text setter, self.text = value, on thread t.
set_text(t, i, value) ==
    LET raised == text_setter(value)
    IN  /\ running[t].pc = "idle"
        /\ objs' = IF raised = "" THEN [objs EXCEPT ![i]._text = value] ELSE objs
        /\ hist' = IF raised = "" THEN [hist EXCEPT ![i].assigned = <<value>>] ELSE hist
        /\ last' = [NoCall EXCEPT !.op = "text", !.i = i, !.value = value,
                                  !.raised = raised, !.pre = objs[i]._text]
        /\ UNCHANGED <<api, created, running, arg, ret>>

\* A call of Completer._build_params on its own, on thread t.
build_params(t, i, draw) ==
    LET built == _build_params(objs[i].__dict__, draw)
    IN  /\ running[t].pc = "idle"
        /\ last' = [NoCall EXCEPT !.op = "_build_params", !.i = i,
                                  !.pre = objs[i]._text, !.calls = built.calls,
                                  !.request = [inputs |-> PyNone, params |-> built.params],
                                  !.before = IF last.op = "_build_params" /\ last.i = i
                                             THEN last.request.params ELSE NoParams]
        /\ UNCHANGED <<api, created, objs, running, hist, arg, ret>>

\* A slip: the text sent with its paragraphs run together, every newline
\* replaced by a space.
request_flat(text, built) ==
    [inputs |-> IF text.kind = "str" THEN PyStr(ReplaceNL(text.s)) ELSE text,
     params |-> built.params]

\* The keyword arguments of self._inference(inputs=self.text, params=...)
request(text, built) == [inputs |-> text, params |-> built.params]

\* A slip: the buffer cleared before the response is matched.
accept_clearing(text, matched) ==
    IF matched.case = "generated_text" THEN matched.value[1] ELSE PyNone

\* A slip: the generated text stored through _normalize_paragraphs.
accept_normalized(text, matched) ==
    IF matched.case # "generated_text" THEN text
    ELSE IF matched.value[1].kind = "str"
    THEN PyStr(_normalize_paragraphs(matched.value[1].s))
    ELSE matched.value[1]

\* The buffer after the match statement of Completer.complete, text being
\* the buffer before it.
accept(text, matched) ==
    IF matched.case = "generated_text" THEN matched.value[1] ELSE text

\* The exception the match statement of Completer.complete raises.
complete_raises(matched) ==
    IF matched.case = "generated_text" THEN ""
    ELSE IF matched.case = "error" THEN "CompletionError"
    ELSE "UnexpectedResponseError"

\* The history of a buffer after a response: an accepted generated_text
\* starts it anew.
Accepted(h, matched) ==
    IF matched.case = "generated_text"
    THEN [accepted |-> matched.value[1], from |-> "generated_text", assigned |-> <<>>]
    ELSE h

\* complete() or __call__() (op) is entered on thread t: the first argument
\* of the transport call, self.text, is evaluated.
enter(t, i, op) ==
    /\ running[t].pc = "idle"
    /\ running' = [running EXCEPT ![t] =
                      [NotCalling EXCEPT !.op = op, !.pc = "text", !.i = i,
                                         !.pre = objs[i]._text]]
    /\ UNCHANGED <<api, created, objs, last, hist, arg, ret>>

\* Completer.complete() is called on thread t.
complete(t, i) == enter(t, i, "complete")

\* Completer.__call__() is called on thread t: complete(), then print(self).
call(t, i) == enter(t, i, "__call__")

\* The second argument, self._build_params(), is evaluated (the Suppliers'
\* functions have run) and self._inference is called: the request leaves,
\* the thread waits for the transport.
complete_request(t, draw) ==
    LET built == _build_params(objs[running[t].i].__dict__, draw)
    IN  /\ running[t].pc = "text"
        /\ running' = [running EXCEPT ![t] =
                          [running[t] EXCEPT !.pc = "sent",
                                             !.sent = running[t].sent + 1,
                                             !.request = request(running[t].pre, built),
                                             !.calls = built.calls]]
        /\ UNCHANGED <<api, created, objs, last, hist, arg, ret>>

\* The transport returns response to thread t, and the match statement
\* stores the generated text or raises.  This ends complete(); within
\* __call__, with nothing raised, print(self) is still to come.
complete_response(t, response) ==
    LET f == running[t]
        matched == match_response(response)
        raised == complete_raises(matched)
        done == [f EXCEPT !.op = "complete", !.pc = "done", !.raised = raised,
                          !.args = IF raised = "" THEN <<>> ELSE matched.value,
                          !.response = response]
    IN  /\ f.pc = "sent"
        /\ objs' = [objs EXCEPT ![f.i]._text = accept(objs[f.i]._text, matched)]
        /\ hist' = [hist EXCEPT ![f.i] = Accepted(hist[f.i], matched)]
        /\ last' = done
        /\ running' = [running EXCEPT ![t] =
                          IF f.op = "__call__" /\ raised = ""
                          THEN [f EXCEPT !.pc = "print", !.response = response]
                          ELSE NotCalling]
        /\ UNCHANGED <<api, created, arg, ret>>

\* The transport raises an error of its own on thread t: the error passes
\* through complete() (and __call__) unchanged.
complete_transport_error(t) ==
    /\ running[t].pc = "sent"
    /\ last' = [running[t] EXCEPT !.op = "complete", !.pc = "done",
                                  !.raised = "TransportError"]
    /\ running' = [running EXCEPT ![t] = NotCalling]
    /\ UNCHANGED <<api, created, objs, hist, arg, ret>>

\* print(self) at the end of __call__ on thread t: str(self) of the buffer
\* as it is by now.
call_print(t) ==
    LET text == objs[running[t].i]._text
    IN  /\ running[t].pc = "print"
        /\ last' = [running[t] EXCEPT !.pc = "done",
                                      !.raised = IF text.kind = "str" THEN ""
                                                 ELSE "AttributeError",
                                      !.out = IF text.kind = "str"
                                              THEN _prettify_paragraphs(text.s)
                                              ELSE <<>>]
        /\ running' = [running EXCEPT ![t] = NotCalling]
        /\ UNCHANGED <<api, created, objs, hist, arg, ret>>

\* Completer.__str__() on thread t: text.strip() exists only on a str.
str(t, i) ==
    LET text == objs[i]._text
    IN  /\ running[t].pc = "idle"
        /\ last' = [NoCall EXCEPT !.op = "__str__", !.i = i, !.pre = text,
                                  !.raised = IF text.kind = "str" THEN ""
                                             ELSE "AttributeError",
                                  !.out = IF text.kind = "str"
                                          THEN _prettify_paragraphs(text.s)
                                          ELSE <<>>]
        /\ UNCHANGED <<api, created, objs, running, hist, arg, ret>>

\* The calls that take several steps, made from the threads ts: at most
\* max constructions give or are about to give an object, from prompts and
\* parameters, and the transport answers from responses.
Calls(ts, max, prompts, parameters, responses) ==
    \/ \E t \in ts, prompt \in prompts, kwargs \in parameters :
           /\ Len(objs) + Cardinality(Constructing) < max
           /\ init(t, prompt, kwargs)
    \/ \E t \in ts : init_load(t)
    \/ \E t \in ts : init_cached(t)
    \/ \E t \in ts : init_no_token(t)
    \/ \E t \in ts, i \in 1..Len(objs) : complete(t, i)
    \/ \E t \in ts : running[t].pc = "text"
           /\ \E draw \in Draws(objs[running[t].i].__dict__) : complete_request(t, draw)
    \/ \E t \in ts :
           \E response \in (IF running[t].op = "__call__" THEN CallResponses
                            ELSE responses) : complete_response(t, response)

\* Every operation, on up to MaxCompleters objects, one call after another
\* on the main thread.
Next ==
    \/ Calls({"main"}, MaxCompleters, Prompts, SharedParameterSets, CompleteResponses)
    \/ \E i \in 1..Len(objs), value \in Assigned : set_text("main", i, value)
    \/ \E i \in 1..Len(objs) : \E draw \in Draws(objs[i].__dict__) :
           build_params("main", i, draw)
    \/ \E i \in 1..Len(objs) : call("main", i)
    \/ complete_transport_error("main")
    \/ call_print("main")
    \/ \E i \in 1..Len(objs) : str("main", i)

Spec == Init /\ [][Next]_vars

\* Up to MaxSessions objects made and completed on all the threads of one
\* process at once.
NextSessions ==
    Calls(Threads, MaxSessions, SharedPrompts, SharedParameterSets, SharedResponses)

SpecSessions == Init /\ [][NextSessions]_vars

\* Up to MaxSessions objects made and completed one after another on the
\* main thread.
NextSequence ==
    Calls({"main"}, MaxSessions, SharedPrompts, SharedParameterSets, SharedResponses)

SpecSequence == Init /\ [][NextSequence]_vars

\* Completers made with parameters of the caller's own, their parameters
\* built on their own and for complete().
NextParams ==
    \/ Calls({"main"}, MaxCompleters, SharedPrompts, ParameterSets, SharedResponses)
    \/ \E i \in 1..Len(objs) : \E draw \in Draws(objs[i].__dict__) :
           build_params("main", i, draw)

SpecParams == Init /\ [][NextParams]_vars

\* complete() on the main thread, the transport answering with payloads of
\* every shape.
NextResponses ==
    Calls({"main"}, MaxCompleters, {PyStr(<<"a", NL, NL, "b">>)}, {NoParams}, Responses)

SpecResponses == Init /\ [][NextResponses]_vars

(***************************************************************************)
(* The formatters on their own: _normalize_paragraphs applied twice to a   *)
(* text, _prettify_paragraphs applied to a normalized text.                *)
(***************************************************************************)
Idle ==
    /\ api = 0
    /\ created = 0
    /\ objs = <<>>
    /\ running = [t \in Threads |-> NotCalling]
    /\ last = NoCall
    /\ hist = <<>>

\* The non-empty texts of up to n characters.
Texts(n) == UNION {[1..k -> Char] : k \in 1..n}

InitNormalize == Idle /\ arg \in Texts(MaxLen) /\ ret = <<>>

normalize ==
    /\ Len(ret) < 2
    /\ ret' = Append(ret, _normalize_paragraphs(IF ret = <<>> THEN arg ELSE ret[Len(ret)]))
    /\ UNCHANGED <<api, created, objs, running, last, hist, arg>>

SpecNormalize == InitNormalize /\ [][normalize]_vars

\* A word of n letters, a and b in turn.
Word(n) == [i \in 1..n |-> IF i % 2 = 1 THEN "a" ELSE "b"]

\* The words of the raw texts: short ones, one that fills half a line, one
\* longer than the width of 70, a hyphenated one, and one of which the
\* part after the hyphen fills a line.
SampleWords ==
    {Word(1), Word(36), Word(71),
     Word(30) \o <<"-">> \o Word(5),
     <<"a", "-">> \o Word(70)}

\* What stands between two words of a raw text: a space, two spaces, a
\* paragraph break, and two paragraph breaks around a space (an empty
\* paragraph).
Seps == {<<SP>>, <<SP, SP>>, <<NL, NL>>, <<NL, NL, SP, NL, NL>>}

\* What a raw text begins and ends with: nothing, or a paragraph break.
Ends == {<<>>, <<NL, NL>>}

RECURSIVE Raw(_)
Raw(k) ==
    IF k = 1 THEN SampleWords
    ELSE {t \o sep \o w : t \in Raw(k - 1), sep \in Seps, w \in SampleWords}

\* Raw texts: up to MaxWords words, or none.
RawTexts ==
    {<<NL, NL>>}
        \cup {lead \o t \o trail :
                  lead \in Ends, trail \in Ends, t \in UNION {Raw(k) : k \in 1..MaxWords}}

\* Texts in normalized form: what _normalize_paragraphs returns.
NormalizedTexts == {_normalize_paragraphs(t) : t \in RawTexts}

InitPrettify == Idle /\ arg \in NormalizedTexts /\ ret = <<>>

prettify ==
    /\ ret = <<>>
    /\ ret' = <<_prettify_paragraphs(arg)>>
    /\ UNCHANGED <<api, created, objs, running, last, hist, arg>>

SpecPrettify == InitPrettify /\ [][prettify]_vars

(***************************************************************************)
(* The claims.  The shapes below are the specification's words for the     *)
(* response payloads, stated apart from match_response.                    *)
(***************************************************************************)
IsSequence(v) == v.kind = "list"
IsMapping(v) == v.kind = "dict"

SuccessShape(r) ==
    /\ IsSequence(r)
    /\ Len(r.items) = 1
    /\ IsMapping(r.items[1])
    /\ "generated_text" \in DOMAIN r.items[1].fields

GeneratedText(r) == r.items[1].fields["generated_text"]

ServiceErrorShape(r) ==
    /\ IsMapping(r)
    /\ "error" \in DOMAIN r.fields
    /\ IsSequence(r.fields["error"])

\* The last call was a complete() that got a response from the transport.
Answered == last.op = "complete" /\ last.raised # "TransportError"

\* A non-empty string.
Valid(text) == text.kind = "str" /\ text.s # <<>>

UsageErrors == {"TypeError", "ValueError"}

\* The value most recently stored in the buffer of Completer i.
LastWritten(i) ==
    IF hist[i].assigned = <<>> THEN hist[i].accepted ELSE hist[i].assigned[1]

\* C1: a complete() that raises (CompletionError, UnexpectedResponseError
\* or the transport's own error) leaves the buffer equal to what it was
\* before the call; a complete() that does not raise has replaced it by the
\* generated text.
C1_FailedCompleteKeepsBuffer ==
    /\ (last.op = "complete" /\ last.raised # "")
           => objs[last.i]._text = last.pre
    /\ (last.op = "complete" /\ last.raised = "")
           => objs[last.i]._text = GeneratedText(last.response)

\* A CompletionError after an earlier success: the generated text of that
\* success is still the buffer.
C1_Witness ==
    /\ last.op = "complete"
    /\ last.raised = "CompletionError"
    /\ last.args = <<PyStr(<<"r", "l">>)>>
    /\ objs[last.i]._text = last.pre
    /\ last.pre = Hi

\* C2: every payload gets exactly one outcome, by its shape: success (no
\* exception, the buffer is the field's value) iff it is a sequence of
\* exactly one mapping that has the key generated_text; otherwise
\* CompletionError carrying the messages iff it is a mapping whose key error
\* holds a sequence; otherwise UnexpectedResponseError carrying the payload.
C2_ResponseClassification ==
    Answered =>
        LET r == last.response
            success == SuccessShape(r)
            service == ~success /\ ServiceErrorShape(r)
        IN  /\ last.raised \in {"", "CompletionError", "UnexpectedResponseError"}
            /\ success <=> last.raised = ""
            /\ success => objs[last.i]._text = GeneratedText(r)
            /\ service <=> last.raised = "CompletionError"
            /\ service => last.args = r.fields["error"].items
            /\ (~success /\ ~service) <=> last.raised = "UnexpectedResponseError"
            /\ (~success /\ ~service) => last.args = <<r>>

\* A mapping whose error is a text, not a sequence of messages.
C2_Witness ==
    /\ Answered
    /\ last.response = PyDict([k \in {"error"} |-> PyStr(<<"r", "l">>)])
    /\ last.raised = "UnexpectedResponseError"
    /\ last.args = <<last.response>>

\* C3, as claimed: the buffer always equals the generated_text of the most
\* recent successful response, or the normalized prompt if there is none
\* (nothing but construction and a successful completion changes it), and a
\* successful complete() raises nothing.
C3_Original ==
    /\ \A i \in 1..Len(objs) : objs[i]._text = hist[i].accepted
    /\ (Answered /\ SuccessShape(last.response)) => last.raised = ""

\* C3, amended: the buffer equals the value stored last: the value assigned
\* through the text setter since the most recent successful response (or
\* construction) if there is one, and else the generated_text of that
\* response, verbatim, or the normalized prompt; a successful complete()
\* raises nothing.
C3_BufferIsLastAcceptedOrAssigned ==
    /\ \A i \in 1..Len(objs) : objs[i]._text = LastWritten(i)
    /\ (last.op = "__init__" /\ last.raised = "")
           => objs[last.i]._text = PyStr(_normalize_paragraphs(last.value.s))
    /\ (Answered /\ SuccessShape(last.response))
           => last.raised = "" /\ objs[last.i]._text = GeneratedText(last.response)

C3_Witness ==
    /\ last.op = "complete"
    /\ last.raised = "UnexpectedResponseError"
    /\ hist[last.i].from = "generated_text"
    /\ hist[last.i].assigned = <<>>
    /\ objs[last.i]._text = Hi

\* C4, as claimed: the buffer of every Completer is a non-empty string in
\* every state, and setting it to anything else fails.
C4_Original ==
    /\ \A i \in 1..Len(objs) : Valid(objs[i]._text)
    /\ (last.op = "text" /\ ~Valid(last.value)) => last.raised \in UsageErrors

\* C4, amended: the buffer is a non-empty string unless it is a
\* generated_text that complete() accepted (complete() stores what the
\* response holds, unchecked); setting it through the text setter to a
\* non-string raises TypeError, to '' raises ValueError, and either leaves
\* the buffer as it was.
C4_BufferValidUnlessGenerated ==
    /\ \A i \in 1..Len(objs) :
           ~Valid(objs[i]._text)
               => /\ hist[i].from = "generated_text"
                  /\ hist[i].assigned = <<>>
                  /\ objs[i]._text = hist[i].accepted
    /\ (last.op = "text" /\ last.value.kind # "str")
           => last.raised = "TypeError" /\ objs[last.i]._text = last.pre
    /\ (last.op = "text" /\ last.value = PyStr(<<>>))
           => last.raised = "ValueError" /\ objs[last.i]._text = last.pre

C4_Witness ==
    /\ last.op = "text"
    /\ last.value = PyStr(<<>>)
    /\ last.raised = "ValueError"
    /\ Valid(objs[last.i]._text)

\* C5, as claimed: _normalize_paragraphs is idempotent on every non-empty text.
C5_Original == Len(ret) = 2 => ret[2] = ret[1]

\* A paragraph break: a run of two or more newlines.
HasParaBreak(text) == \E i \in 1..(Len(text) - 1) : text[i] = NL /\ text[i + 1] = NL

\* C5, amended: _normalize_paragraphs is idempotent on every non-empty text
\* that holds no paragraph break.
C5_IdempotentWithoutParaBreak ==
    (Len(ret) = 2 /\ ~HasParaBreak(arg)) => ret[2] = ret[1]

C5_Witness ==
    /\ Len(ret) = 2
    /\ arg = <<SP, "a", NL, "a", NL>>
    /\ ret[1] = <<"a", SP, "a">>
    /\ ret[2] = ret[1]

\* The arguments Completer() must reject: a prompt that is the empty string
\* or no string, a parameter name that starts with '_'.
BadConstruct(prompt, kwargs) ==
    \/ prompt.kind # "str"
    \/ prompt.s = <<>>
    \/ \E name \in DOMAIN kwargs : name[1] = "_"

\* C6, as claimed: Completer(prompt, **parameters) raises TypeError or
\* ValueError when the prompt is '' or no string or a parameter name starts
\* with '_', and then there is no new object and the existing ones are as
\* they were.
C6_Original ==
    [][(last'.op = "__init__" /\ BadConstruct(last'.value, last'.kwargs))
           => /\ last'.raised \in UsageErrors
              /\ last'.i = 0
              /\ objs' = objs]_vars

\* C6, amended: with such arguments Completer() raises, gives no object and
\* leaves the existing ones as they were.  It raises TypeError or ValueError
\* once it has the InferenceApi (which is cached by then); it asks for the
\* InferenceApi before it looks at its arguments, so when none is cached
\* and the token file cannot be opened it raises that error
\* (FileNotFoundError) in their place, and only then.
C6_ConstructRejects ==
    [][/\ (last'.op = "__init__" /\ BadConstruct(last'.value, last'.kwargs))
           => /\ last'.raised \in UsageErrors \cup {"FileNotFoundError"}
              /\ last'.i = 0
              /\ objs' = objs
       /\ \A t \in Constructing :
              (running'[t].pc = "idle" /\ BadConstruct(running[t].value, running[t].kwargs))
                  => /\ last'.raised \in UsageErrors
                         <=> (running[t].pc = "built" /\ api' = running[t].handle)
                     /\ last'.raised = "FileNotFoundError"
                         <=> (running[t].pc = "open" /\ api' = api)
                     /\ created' = created
       /\ (last'.op = "__init__" /\ last'.raised = "FileNotFoundError" /\ last' # last)
           => \E t \in Opening : running'[t].pc = "idle"]_vars

\* A construction rejected for a parameter name, next to a Completer that
\* has completed its text before.
C6_Witness ==
    /\ last.op = "__init__"
    /\ last.value = PyStr(<<"a", NL, NL, "b">>)
    /\ _text \in DOMAIN last.kwargs
    /\ last.raised = "TypeError"
    /\ Len(objs) = 1
    /\ objs[1]._text = Hi

\* C7: _build_params returns a dict with the keys of the stored parameters
\* (the defaults do_sample, max_new_tokens, seed, temperature, overlaid by
\* the caller's), every plain value as stored, every Supplier replaced by a
\* result of one call of it in this build; the stored parameters stay as
\* they are, so plain values are the same from one build to the next.
C7_BuildParams ==
    [][/\ last'.op = "_build_params"
           => LET dict == objs[last'.i].__dict__
                  params == last'.request.params
              IN  /\ DOMAIN params = DOMAIN dict
                  /\ \A n \in DOMAIN dict :
                         IF dict[n].kind = "Supplier"
                         THEN /\ last'.calls[n] = 1
                              /\ params[n] \in Supplier_call(dict[n])
                         ELSE /\ last'.calls[n] = 0
                              /\ params[n] = dict[n]
                  /\ last'.before # NoParams
                         => \A n \in DOMAIN dict :
                                dict[n].kind # "Supplier" => last'.before[n] = params[n]
                  /\ objs' = objs
       /\ (last'.op = "__init__" /\ last'.raised = "")
           => LET dict == objs'[last'.i].__dict__
                  kwargs == last'.kwargs
              IN  /\ DOMAIN dict = {do_sample, max_new_tokens, seed, temperature}
                                       \cup DOMAIN kwargs
                  /\ \A n \in DOMAIN kwargs : dict[n] = kwargs[n]
                  /\ do_sample \notin DOMAIN kwargs => dict[do_sample] = PyBool("True")
                  /\ max_new_tokens \notin DOMAIN kwargs
                         => dict[max_new_tokens] = PyInt("250")
                  /\ seed \notin DOMAIN kwargs => dict[seed].kind = "Supplier"
                  /\ temperature \notin DOMAIN kwargs
                         => dict[temperature] = PyFloat("0.75")]_vars

\* Two builds in a row: the Supplier gave another value, the plain values stayed.
C7_Witness ==
    /\ last.op = "_build_params"
    /\ top_k \in DOMAIN last.before
    /\ last.before[top_k] = PyInt("10")
    /\ last.request.params[top_k] = PyInt("50")
    /\ last.request.params[seed] = PyInt("7")
    /\ last.calls[top_k] = 1

\* C8: however many Completers are made one after another, at most one
\* InferenceApi is ever built, every Completer holds that one, and it holds
\* it from its construction on.
C8_OneInferenceApi ==
    /\ [](/\ created <= 1
          /\ api # 0 => created = 1
          /\ \A i \in 1..Len(objs) : objs[i]._inference = api /\ api = 1)
    /\ [][\A i \in 1..Len(objs) : objs'[i]._inference = objs[i]._inference]_vars

\* Two Completers made one after the other hold the one InferenceApi, and
\* one of them has been completed since.
C8_Witness ==
    /\ Len(objs) = 2
    /\ created = 1
    /\ objs[1]._inference = objs[2]._inference
    /\ last.op = "complete"

\* Number of leading non-whitespace characters of s.
LeadingInk(s) ==
    CHOOSE k \in 0..Len(s) :
        /\ \A j \in 1..k : ~IsWs(s[j])
        /\ k < Len(s) => IsWs(s[k + 1])

\* The whitespace-delimited words of a text (str.split()).
RECURSIVE Words(_)
Words(text) ==
    LET s == LStrip(text)
    IN  IF s = <<>> THEN <<>>
        ELSE <<SubSeq(s, 1, LeadingInk(s))>>
                 \o Words(SubSeq(s, LeadingInk(s) + 1, Len(s)))

\* The characters of a text that are not whitespace.
NonWs(text) == LET Inked(c) == ~IsWs(c) IN SelectSeq(text, Inked)

\* The blocks of a prettified text: what blank lines separate.
Blocks(text) == _PARA_BREAK_split(text)

Paragraphs(text) == SelectSeq(SplitNL(text), LAMBDA line : line # <<>>)

\* A word that wrapping leaves whole: no longer than the width, no hyphen.
Unbroken(word) == Len(word) <= Width /\ \A j \in 1..Len(word) : word[j] # "-"

C10_OneRequestWithBuffer ==
    /\ [][\A t \in Threads :
            /\ (running[t].pc = "idle" /\ running'[t].pc = "text")
                   => LET i == running'[t].i
                      IN  /\ running'[t].sent = 0
                          /\ running'[t].pre = objs[i]._text
                          /\ hist[i].assigned = <<>>
                                 => running'[t].pre = hist[i].accepted
                          /\ objs' = objs
            /\ (running[t].pc = "text" /\ running'[t].pc = "sent")
                   => LET dict == objs[running[t].i].__dict__
                          params == running'[t].request.params
                      IN  /\ running'[t].sent = 1
                          /\ running'[t].request.inputs = running[t].pre
                          /\ DOMAIN params = DOMAIN dict
                          /\ \A n \in DOMAIN dict :
                                 IF dict[n].kind = "Supplier"
                                 THEN /\ running'[t].calls[n] = 1
                                      /\ params[n] \in Supplier_call(dict[n])
                                 ELSE params[n] = dict[n]
                          /\ objs' = objs
            /\ (running[t].pc = "sent" /\ running'[t].pc # "sent")
                   => /\ last'.op = "complete"
                      /\ last'.sent = 1
                      /\ last'.request = running[t].request
                      /\ last'.pre = running[t].pre]_vars
    /\ [](\A t \in Threads, i \in 1..Len(objs) :
              running[t].pc = "idle" => ENABLED complete(t, i))

\* A successful complete() after an earlier success: it sent the text that
\* the earlier one had stored.
C10_Witness ==
    /\ last.op = "complete"
    /\ last.raised = ""
    /\ last.sent = 1
    /\ last.pre = Hi
    /\ last.request.inputs = Hi
    /\ last.request.params[seed] = PyInt("18446744073709551615")

====
